---- MODULE Spec2Model ----
(***************************************************************************)
(* Model of the file-metadata chaincode of src/fileData.go: the handlers   *)
(* initFile, deleteFile and queryfile, the dispatcher Invoke, and the      *)
(* ledger world state they read and write through the stub.                *)
(*                                                                         *)
(* Strings and byte slices are sequences of one-character strings, so that *)
(* lowercasing, composite keys, JSON encoding and the query buffer are     *)
(* computed character by character, as the code computes them.             *)
(***************************************************************************)
EXTENDS Integers, Sequences, FiniteSets, TLC

(***************************************************************************)
(* Bounds of the model.                                                    *)
(***************************************************************************)
\* Longest argument list an invocation is given (initFile wants 3).
MaxArgs == 4
\* Most pairs a query cursor yields.
MaxResults == 2

(***************************************************************************)
(* Characters and strings.                                                 *)
(***************************************************************************)
\* The byte 0x00 (the index sentinel of line 97, the composite-key separator).
NUL == "\\0"
QUOTE == "\""

EmptyStr == << >>
\* The argument strings an invocation draws from: the empty string, one
\* lowercase string and the same string in upper case.
ArgStrings == { EmptyStr, <<"a">>, <<"A">> }
\* Names, hashes and urls of the records the ledger may already hold when
\* the chaincode is instantiated.
PreNames == { <<"a">>, <<"A">> }
PreHashes == { <<"a">>, <<"b">> }
PreUrls == { <<"a">> }

\* unicode.ToLower on one character of the model's alphabet.
LowerChar(c) ==
  CASE c = "A" -> "a"
    [] c = "B" -> "b"
    [] OTHER -> c

\* strings.ToLower (lines 66, 67).
ToLower(s) == [i \in 1..Len(s) |-> LowerChar(s[i])]

\* Concatenation of a sequence of strings, left to right.
RECURSIVE Concat(_)
Concat(ss) == IF ss = << >> THEN << >> ELSE Head(ss) \o Concat(Tail(ss))

\* p occurs in b starting at position i.
HasAt(b, p, i) ==
  /\ i >= 1
  /\ i + Len(p) - 1 <= Len(b)
  /\ \A k \in 1..Len(p) : b[i + k - 1] = p[k]

\* Position of the first c in b at or after position i, 0 if there is none.
IndexFrom(b, c, i) ==
  LET hits == { j \in i..Len(b) : b[j] = c }
  IN IF hits = {} THEN 0 ELSE CHOOSE j \in hits : \A k \in hits : j <= k

(***************************************************************************)
(* The ledger world state seen through the stub: a function from the keys  *)
(* that are present to their values.                                       *)
(***************************************************************************)
EmptyStore == [k \in {} |-> << >>]

\* stub.GetState that the ledger answers: the bytes under key, nil when the
\* key is absent.
GetState(s, key) ==
  IF key \in DOMAIN s THEN [isNil |-> FALSE, bytes |-> s[key]]
  ELSE [isNil |-> TRUE, bytes |-> << >>]

\* stub.PutState that the ledger accepts.
PutState(s, key, value) ==
  [k \in DOMAIN s \cup {key} |-> IF k = key THEN value ELSE s[k]]

\* stub.DelState that the ledger accepts; deleting an absent key is no error.
DelState(s, key) == [k \in DOMAIN s \ {key} |-> s[k]]

\* stub.CreateCompositeKey: NUL objectType NUL attr NUL attr NUL.  It fails
\* when the object type or an attribute holds the NUL character.
CompositeKeyOk(objectType, attrs) ==
  /\ \A i \in 1..Len(objectType) : objectType[i] # NUL
  /\ \A a \in 1..Len(attrs) : \A i \in 1..Len(attrs[a]) : attrs[a][i] # NUL

RECURSIVE JoinAttrs(_)
JoinAttrs(attrs) ==
  IF attrs = << >> THEN << >>
  ELSE Head(attrs) \o <<NUL>> \o JoinAttrs(Tail(attrs))

CreateCompositeKey(objectType, attrs) ==
  <<NUL>> \o objectType \o <<NUL>> \o JoinAttrs(attrs)

(***************************************************************************)
(* FileDetails and its JSON encoding.                                      *)
(***************************************************************************)
FileDetails(fileName, fileHash, fileUrl) ==
  [FileName |-> fileName, FileHash |-> fileHash, FileUrl |-> fileUrl]

JsonOpenName == <<"{", QUOTE, "F","i","l","e","N","a","m","e", QUOTE, ":", QUOTE>>
JsonHashField == <<QUOTE, ",", QUOTE, "F","i","l","e","H","a","s","h", QUOTE, ":", QUOTE>>
JsonUrlField == <<QUOTE, ",", QUOTE, "F","i","l","e","U","r","l", QUOTE, ":", QUOTE>>
JsonClose == <<QUOTE, "}">>

\* json.Marshal of a FileDetails (line 79); the model's alphabet has no
\* character that JSON escapes.
Marshal(rec) ==
  Concat(<< JsonOpenName, rec.FileName, JsonHashField, rec.FileHash,
            JsonUrlField, rec.FileUrl, JsonClose >>)

\* json.Unmarshal into a FileDetails (line 127), on the byte strings the
\* ledger of this model can hold: the encoding Marshal writes decodes to its
\* record, anything else (the sentinel byte of an index entry) is an error.
UnmarshalError == [err |-> TRUE, rec |-> FileDetails(<< >>, << >>, << >>)]
Decoded(rec) == [err |-> FALSE, rec |-> rec]
Unmarshal(b) ==
  IF ~ HasAt(b, JsonOpenName, 1) THEN UnmarshalError
  ELSE
    LET n1 == Len(JsonOpenName) + 1
        n2 == IndexFrom(b, QUOTE, n1)
    IN IF n2 = 0 \/ ~ HasAt(b, JsonHashField, n2) THEN UnmarshalError
       ELSE
         LET h1 == n2 + Len(JsonHashField)
             h2 == IndexFrom(b, QUOTE, h1)
         IN IF h2 = 0 \/ ~ HasAt(b, JsonUrlField, h2) THEN UnmarshalError
            ELSE
              LET u1 == h2 + Len(JsonUrlField)
                  u2 == IndexFrom(b, QUOTE, u1)
              IN IF u2 = 0 \/ ~ HasAt(b, JsonClose, u2)
                      \/ u2 + Len(JsonClose) - 1 # Len(b)
                 THEN UnmarshalError
                 ELSE Decoded(FileDetails(SubSeq(b, n1, n2 - 1),
                                          SubSeq(b, h1, h2 - 1),
                                          SubSeq(b, u1, u2 - 1)))

(***************************************************************************)
(* Responses.  A handler returns shim.Success or shim.Error, or it panics  *)
(* and returns nothing.  A response carries the status, the fixed text of  *)
(* the message, the text appended to it (a name or the store's error), the *)
(* payload, the ledger as the handler leaves it and the stub and cursor    *)
(* calls the handler made, in order.                                       *)
(***************************************************************************)
OK == "OK"
ERROR == "ERROR"
PANIC == "PANIC"

Success(payload, s, calls) ==
  [status |-> OK, message |-> "", detail |-> << >>, payload |-> payload,
   store |-> s, calls |-> calls]
Error(msg, detail, s, calls) ==
  [status |-> ERROR, message |-> msg, detail |-> detail, payload |-> << >>,
   store |-> s, calls |-> calls]
Panic(msg, s, calls) ==
  [status |-> PANIC, message |-> msg, detail |-> << >>, payload |-> << >>,
   store |-> s, calls |-> calls]

\* The store call an invocation finds failing; NoFault: every call succeeds.
NoFault == "none"
FailGet == "GetState fails"
FailPut == "PutState fails"
FailPutIndex == "PutState of the index entry fails"
FailDel == "DelState fails"
FailDelIndex == "DelState of the index entry fails"
FailQuery == "GetQueryResult fails"
FailNext == "Next fails"
\* err.Error() of a failed store call.
ErrorText(fault) == <<fault>>

(***************************************************************************)
(* initFile (lines 47-104).                                                *)
(***************************************************************************)
\* Go's args[i] (0-based): i is within the slice; the element.
InRange(args, i) == i >= 0 /\ i < Len(args)
At(args, i) == args[i + 1]

\* initFileArgCheck without the check of the second argument (lines 58-60).
initFileArgCheckNoHashCheck(args) ==
  IF Len(args) # 3 THEN "Incorrect number of arguments. Expecting 4"
  ELSE IF Len(At(args, 0)) <= 0 THEN "1st argument must be a non-empty string"
  ELSE IF Len(At(args, 2)) <= 0 THEN "3rd argument must be a non-empty string"
  ELSE ""

\* Lines 50-63: the argument checks; "" when all pass.
initFileArgCheck(args) ==
  IF Len(args) # 3 THEN "Incorrect number of arguments. Expecting 4"
  ELSE IF Len(At(args, 0)) <= 0 THEN "1st argument must be a non-empty string"
  ELSE IF Len(At(args, 1)) <= 0 THEN "2nd argument must be a non-empty string"
  ELSE IF Len(At(args, 2)) <= 0 THEN "3rd argument must be a non-empty string"
  ELSE ""

\* Line 90.
initFileIndexName == <<"h","a","s","h","~","n","a","m","e">>
\* Line 97.
IndexValue == <<NUL>>

\* Lines 69-102, once fileName, fileHash and fileUrl are set.
initFileStore(s, fileName, fileHash, fileUrl, fault) ==
  IF fault = FailGet
  THEN Error("Failed to get file: ", ErrorText(fault), s, <<"GetState">>)
  ELSE IF ~ GetState(s, fileName).isNil
  THEN Error("This file is  already exists: ", fileName, s, <<"GetState">>)
  ELSE
    LET filestore == FileDetails(fileName, fileHash, fileUrl)
        fileJSONasBytes == Marshal(filestore)
    IN IF fault = FailPut
       THEN Error("", ErrorText(fault), s, <<"GetState", "PutState">>)
       ELSE
         LET s1 == PutState(s, fileName, fileJSONasBytes)
             attrs == <<filestore.FileHash, filestore.FileName>>
         IN IF ~ CompositeKeyOk(initFileIndexName, attrs)
            THEN Error("", <<"CreateCompositeKey fails">>, s1,
                       <<"GetState", "PutState", "CreateCompositeKey">>)
            ELSE
              LET fileHashNameIndexKey == CreateCompositeKey(initFileIndexName, attrs)
                  \* line 98: the error PutState returns is dropped
                  s2 == IF fault = FailPutIndex THEN s1
                        ELSE PutState(s1, fileHashNameIndexKey, IndexValue)
              IN Success(<< >>, s2,
                         <<"GetState", "PutState", "CreateCompositeKey", "PutState">>)

\* Lines 47-104.  Line 67 reads args[3] of a slice that line 50 has checked
\* to hold three elements: the read is out of range and the handler panics.
initFile(s, args, fault) ==
  IF initFileArgCheck(args) # ""
  THEN Error(initFileArgCheck(args), << >>, s, << >>)
  ELSE IF ~ InRange(args, 3)
  THEN Panic("index out of range", s, << >>)
  ELSE initFileStore(s, At(args, 0), ToLower(At(args, 1)), ToLower(At(args, 3)), fault)

(***************************************************************************)
(* deleteFile (lines 109-151).                                             *)
(***************************************************************************)
\* Line 139.
deleteFileIndexName == <<"H","a","s","h","~","n","a","m","e">>

\* deleteFileRecord deleting the primary entry before it decodes the record.
deleteFileRecordDeleteFirst(s, filename, valAsbytes, fault) ==
  LET decoded == Unmarshal(valAsbytes)
      fileJSON == decoded.rec
  IN IF fault = FailDel
     THEN Error("Failed to delete state:", ErrorText(fault), s, <<"GetState", "DelState">>)
     ELSE
       LET s1 == DelState(s, filename)
           attrs == <<fileJSON.FileHash, fileJSON.FileName>>
           calls == <<"GetState", "DelState", "CreateCompositeKey", "DelState">>
       IN IF decoded.err
          THEN Error("Failed to decode JSON of: ", filename, s1, <<"GetState", "DelState">>)
          ELSE IF ~ CompositeKeyOk(deleteFileIndexName, attrs)
          THEN Error("", <<"CreateCompositeKey fails">>, s1,
                     <<"GetState", "DelState", "CreateCompositeKey">>)
          ELSE IF fault = FailDelIndex
          THEN Error("Failed to delete state:", ErrorText(fault), s1, calls)
          ELSE Success(<< >>,
                       DelState(s1, CreateCompositeKey(deleteFileIndexName, attrs)),
                       calls)

\* deleteFileRecord deleting every index entry written under the record's
\* hash instead of the one entry of the record.
deleteFileRecordByHash(s, filename, valAsbytes, fault) ==
  LET decoded == Unmarshal(valAsbytes)
      fileJSON == decoded.rec
  IN IF decoded.err
     THEN Error("Failed to decode JSON of: ", filename, s, <<"GetState">>)
     ELSE IF fault = FailDel
     THEN Error("Failed to delete state:", ErrorText(fault), s, <<"GetState", "DelState">>)
     ELSE
       LET s1 == DelState(s, filename)
           prefix == CreateCompositeKey(initFileIndexName, <<fileJSON.FileHash>>)
           calls == <<"GetState", "DelState", "CreateCompositeKey", "DelState">>
       IN IF fault = FailDelIndex
          THEN Error("Failed to delete state:", ErrorText(fault), s1, calls)
          ELSE Success(<< >>,
                       [k \in { x \in DOMAIN s1 : ~ HasAt(x, prefix, 1) } |-> s1[k]],
                       calls)

\* deleteFileRecord deleting the index entry before the primary entry.
deleteFileRecordIndexFirst(s, filename, valAsbytes, fault) ==
  LET decoded == Unmarshal(valAsbytes)
      fileJSON == decoded.rec
      attrs == <<fileJSON.FileHash, fileJSON.FileName>>
  IN IF decoded.err
     THEN Error("Failed to decode JSON of: ", filename, s, <<"GetState">>)
     ELSE IF ~ CompositeKeyOk(deleteFileIndexName, attrs)
     THEN Error("", <<"CreateCompositeKey fails">>, s,
                <<"GetState", "CreateCompositeKey">>)
     ELSE IF fault = FailDelIndex
     THEN Error("Failed to delete state:", ErrorText(fault), s,
                <<"GetState", "CreateCompositeKey", "DelState">>)
     ELSE
       LET s1 == DelState(s, CreateCompositeKey(deleteFileIndexName, attrs))
           calls == <<"GetState", "CreateCompositeKey", "DelState", "DelState">>
       IN IF fault = FailDel
          THEN Error("Failed to delete state:", ErrorText(fault), s1, calls)
          ELSE Success(<< >>, DelState(s1, filename), calls)

\* Lines 127-150: decode the record read, delete it, delete its index entry.
deleteFileRecord(s, filename, valAsbytes, fault) ==
  LET decoded == Unmarshal(valAsbytes)
      fileJSON == decoded.rec
  IN IF decoded.err
     THEN Error("Failed to decode JSON of: ", filename, s, <<"GetState">>)
     ELSE IF fault = FailDel
     THEN Error("Failed to delete state:", ErrorText(fault), s, <<"GetState", "DelState">>)
     ELSE
       LET s1 == DelState(s, filename)
           attrs == <<fileJSON.FileHash, fileJSON.FileName>>
       IN IF ~ CompositeKeyOk(deleteFileIndexName, attrs)
          THEN Error("", <<"CreateCompositeKey fails">>, s1,
                     <<"GetState", "DelState", "CreateCompositeKey">>)
          ELSE
            LET colorNameIndexKey == CreateCompositeKey(deleteFileIndexName, attrs)
                calls == <<"GetState", "DelState", "CreateCompositeKey", "DelState">>
            IN IF fault = FailDelIndex
               THEN Error("Failed to delete state:", ErrorText(fault), s1, calls)
               ELSE Success(<< >>, DelState(s1, colorNameIndexKey), calls)

\* deleteFile without the test for an absent record (lines 122-125).
deleteFileNoNilCheck(s, args, fault) ==
  IF Len(args) # 1
  THEN Error("Incorrect number of arguments. Expecting 1", << >>, s, << >>)
  ELSE
    LET filename == At(args, 0)
        valAsbytes == GetState(s, filename)
    IN IF fault = FailGet
       THEN Error("Failed to get state for ", filename, s, <<"GetState">>)
       ELSE deleteFileRecord(s, filename, valAsbytes.bytes, fault)

\* Lines 109-125, then the rest.
deleteFile(s, args, fault) ==
  IF Len(args) # 1
  THEN Error("Incorrect number of arguments. Expecting 1", << >>, s, << >>)
  ELSE
    LET filename == At(args, 0)
        valAsbytes == GetState(s, filename)
    IN IF fault = FailGet
       THEN Error("Failed to get state for ", filename, s, <<"GetState">>)
       ELSE IF valAsbytes.isNil
       THEN Error("Marble does not exist: ", filename, s, <<"GetState">>)
       ELSE deleteFileRecord(s, filename, valAsbytes.bytes, fault)

(***************************************************************************)
(* queryfile (lines 160-175, 189-242).  The cursor the query engine        *)
(* returns is the sequence of pairs it will yield; failAt is the position  *)
(* of the Next call that fails, 0 when none does.                          *)
(***************************************************************************)
KeyOpen == <<"{", QUOTE, "K","e","y", QUOTE, ":">>
RecordOpen == <<",", " ", QUOTE, "R","e","c","o","r","d", QUOTE, ":">>

\* writeMember with the comma written before the first member too.
writeMemberAlwaysComma(buffer, bArrayMemberAlreadyWritten, queryResponse) ==
  Concat(<< buffer, <<",">>, KeyOpen, <<QUOTE>>, queryResponse.Key, <<QUOTE>>,
            RecordOpen, queryResponse.Value, <<"}">> >>)

\* Lines 224-237: one array member appended to the buffer.
writeMember(buffer, bArrayMemberAlreadyWritten, queryResponse) ==
  LET b1 == IF bArrayMemberAlreadyWritten = TRUE THEN buffer \o <<",">> ELSE buffer
  IN Concat(<< b1, KeyOpen, <<QUOTE>>, queryResponse.Key, <<QUOTE>>,
               RecordOpen, queryResponse.Value, <<"}">> >>)

\* Lines 219-241: the loop from the cursor's position i on.
RECURSIVE constructLoop(_, _, _, _, _, _)
constructLoop(results, failAt, i, buffer, bArrayMemberAlreadyWritten, calls) ==
  IF i > Len(results)
  THEN [err |-> FALSE, buffer |-> buffer \o <<"]">>, calls |-> Append(calls, "HasNext")]
  ELSE IF failAt = i
  THEN [err |-> TRUE, buffer |-> << >>, calls |-> calls \o <<"HasNext", "Next">>]
  ELSE constructLoop(results, failAt, i + 1,
                     writeMember(buffer, bArrayMemberAlreadyWritten, results[i]),
                     TRUE, calls \o <<"HasNext", "Next">>)

\* constructQueryResponseFromIterator without the opening bracket of line 216.
constructQueryResponseNoOpen(results, failAt) ==
  constructLoop(results, failAt, 1, << >>, FALSE, << >>)

\* Lines 213-242.
constructQueryResponseFromIterator(results, failAt) ==
  constructLoop(results, failAt, 1, <<"[">>, FALSE, << >>)

\* getQueryResultForQueryString closing the cursor on the normal return only.
getQueryResultNoCloseOnError(s, queryString, fault, results, failAt) ==
  IF fault = FailQuery
  THEN [err |-> TRUE, detail |-> ErrorText(fault), bytes |-> << >>,
        calls |-> <<"GetQueryResult">>]
  ELSE
    LET built == constructQueryResponseFromIterator(results, failAt)
    IN IF built.err
       THEN [err |-> TRUE, detail |-> ErrorText(FailNext), bytes |-> << >>,
             calls |-> <<"GetQueryResult">> \o built.calls]
       ELSE [err |-> FALSE, detail |-> << >>, bytes |-> built.buffer,
             calls |-> <<"GetQueryResult">> \o built.calls \o <<"Close">>]

\* Lines 189-207; the deferred Close runs on every return after line 197.
getQueryResultForQueryString(s, queryString, fault, results, failAt) ==
  IF fault = FailQuery
  THEN [err |-> TRUE, detail |-> ErrorText(fault), bytes |-> << >>,
        calls |-> <<"GetQueryResult">>]
  ELSE
    LET built == constructQueryResponseFromIterator(results, failAt)
        calls == <<"GetQueryResult">> \o built.calls \o <<"Close">>
    IN IF built.err
       THEN [err |-> TRUE, detail |-> ErrorText(FailNext), bytes |-> << >>,
             calls |-> calls]
       ELSE [err |-> FALSE, detail |-> << >>, bytes |-> built.buffer, calls |-> calls]

\* queryfile dropping the error of getQueryResultForQueryString (lines 171-173).
queryfileIgnoresError(s, args, fault, results, failAt) ==
  IF Len(args) < 1
  THEN Error("Incorrect number of arguments. Expecting 1", << >>, s, << >>)
  ELSE
    LET queryString == At(args, 0)
        got == getQueryResultForQueryString(s, queryString, fault, results, failAt)
    IN Success(got.bytes, s, got.calls)

\* queryfile keeping its result in the ledger under the query string.
queryfileCachesResult(s, args, fault, results, failAt) ==
  IF Len(args) < 1
  THEN Error("Incorrect number of arguments. Expecting 1", << >>, s, << >>)
  ELSE
    LET queryString == At(args, 0)
        got == getQueryResultForQueryString(s, queryString, fault, results, failAt)
    IN IF got.err THEN Error("", got.detail, s, got.calls)
       ELSE Success(got.bytes, PutState(s, queryString, got.bytes),
                    Append(got.calls, "PutState"))

\* Lines 160-175.
queryfile(s, args, fault, results, failAt) ==
  IF Len(args) < 1
  THEN Error("Incorrect number of arguments. Expecting 1", << >>, s, << >>)
  ELSE
    LET queryString == At(args, 0)
        got == getQueryResultForQueryString(s, queryString, fault, results, failAt)
    IN IF got.err THEN Error("", got.detail, s, got.calls)
       ELSE Success(got.bytes, s, got.calls)

(***************************************************************************)
(* Invoke (lines 29-42).                                                   *)
(***************************************************************************)
\* Invoke matching the operation name deletefile whatever its letter case.
InvokeAnyCase(s, function, args, fault, results, failAt) ==
  IF function = "initFile" THEN initFile(s, args, fault)
  ELSE IF function \in {"deletefile", "deleteFile"} THEN deleteFile(s, args, fault)
  ELSE IF function = "queryfile" THEN queryfile(s, args, fault, results, failAt)
  ELSE Error("Received unknown function invocation", << >>, s, << >>)

Invoke(s, function, args, fault, results, failAt) ==
  IF function = "initFile" THEN initFile(s, args, fault)
  ELSE IF function = "deletefile" THEN deleteFile(s, args, fault)
  ELSE IF function = "queryfile" THEN queryfile(s, args, fault, results, failAt)
  ELSE Error("Received unknown function invocation", << >>, s, << >>)

(***************************************************************************)
(* The state: the ledger, the last invocation with its response, whether   *)
(* some invocation so far met a failing store call, and the invocations in *)
(* progress when two of them run concurrently.                             *)
(***************************************************************************)
VARIABLES store, call, faulted, race

vars == <<store, call, faulted, race>>

\* Argument lists of up to MaxArgs strings for a handler that reads its
\* first `read` arguments: those are drawn from strs, the arguments after
\* them, which the handler never looks at, are the filler string.
Filler == <<"a">>
ArgsFor(read, strs) ==
  { args \in UNION { [1..n -> strs \cup {Filler}] : n \in 0..MaxArgs } :
      \A i \in 1..Len(args) : i > read => args[i] = Filler }

InitFileArgs == ArgsFor(3, ArgStrings)
\* deletefile is also given the key of an index entry as the name: the bytes
\* stored under it are the sentinel, which is no record.
DeleteStrings ==
  ArgStrings \cup { CreateCompositeKey(initFileIndexName, << <<"a">>, <<"a">> >>) }
DeleteFileArgs == ArgsFor(1, DeleteStrings)
QueryStrings == { EmptyStr, <<"a">> }
QueryFileArgs == ArgsFor(1, QueryStrings)
UnknownArgs == ArgsFor(0, {})

\* Operation names that Invoke does not know.
UnknownFunctions == { "deleteFile", "init" }

\* The entries of a ledger that are records: the documents a query can match.
Documents(s) == { k \in DOMAIN s : ~ Unmarshal(s[k]).err }

\* The cursors a query can return on ledger s: up to MaxResults documents of
\* the ledger, each at most once, in the order the query engine chooses.
Cursors(s) ==
  LET seqs == UNION { [1..n -> Documents(s)] : n \in 0..MaxResults }
  IN { [i \in 1..Len(q) |-> [Key |-> q[i], Value |-> s[q[i]]]] :
         q \in { r \in seqs : \A i, j \in 1..Len(r) : i # j => r[i] # r[j] } }

\* A ledger holding the records recs, each laid out as initFile writes it
\* (lines 78-98): the record under its name, the sentinel under its index key.
RECURSIVE LedgerOf(_)
LedgerOf(recs) ==
  IF recs = {} THEN EmptyStore
  ELSE LET r == CHOOSE x \in recs : TRUE
           s == LedgerOf(recs \ {r})
       IN PutState(PutState(s, r.FileName, Marshal(r)),
                   CreateCompositeKey(initFileIndexName, <<r.FileHash, r.FileName>>),
                   IndexValue)

PreRecords ==
  { FileDetails(n, h, u) : n \in PreNames, h \in PreHashes, u \in PreUrls }

\* The ledgers the chaincode can be instantiated on: the world state outlives
\* the chaincode's versions, and Init (lines 25-27) leaves it as it finds it.
PreLedgers ==
  { LedgerOf(recs) :
      recs \in { R \in SUBSET PreRecords :
                   \A x, y \in R : x.FileName = y.FileName => x = y } }

NoCall ==
  [function |-> "", args |-> << >>, fault |-> NoFault, results |-> << >>,
   failAt |-> 0, pre |-> EmptyStore, status |-> "", message |-> "",
   detail |-> << >>, payload |-> << >>, calls |-> << >>]

\* No invocations in progress.
NoRace == [pre |-> EmptyStore, proc |-> << >>]

Init ==
  /\ store \in PreLedgers
  /\ call = NoCall
  /\ faulted = FALSE
  /\ race = NoRace

\* One invocation, run to its end (lines 29-42 and the handler it reaches).
Run(function, args, fault, results, failAt) ==
  LET r == Invoke(store, function, args, fault, results, failAt)
  IN /\ store' = r.store
     /\ call' = [function |-> function, args |-> args, fault |-> fault,
                 results |-> results, failAt |-> failAt, pre |-> store,
                 status |-> r.status, message |-> r.message, detail |-> r.detail,
                 payload |-> r.payload, calls |-> r.calls]
     /\ faulted' = (faulted \/ fault # NoFault \/ failAt # 0)
     /\ race' = race

\* A failing store call is drawn only for the invocations that get past
\* their argument checks: the others make no store call.
InvokeInitFile ==
  \E args \in InitFileArgs, fault \in {NoFault, FailGet, FailPut, FailPutIndex} :
    /\ fault # NoFault => initFileArgCheck(args) = ""
    /\ Run("initFile", args, fault, << >>, 0)

InvokeDeleteFile ==
  \E args \in DeleteFileArgs, fault \in {NoFault, FailGet, FailDel, FailDelIndex} :
    /\ fault # NoFault => Len(args) = 1
    /\ Run("deletefile", args, fault, << >>, 0)

InvokeQueryFile ==
  \E args \in QueryFileArgs :
    \/ Run("queryfile", args, FailQuery, << >>, 0)
    \/ \E results \in Cursors(store) : \E failAt \in 0..Len(results) :
         /\ Len(args) < 1 => results = << >>
         /\ Run("queryfile", args, NoFault, results, failAt)

InvokeUnknown ==
  \E function \in UnknownFunctions, args \in UnknownArgs :
    Run(function, args, NoFault, << >>, 0)

Next ==
  \/ InvokeInitFile
  \/ InvokeDeleteFile
  \/ InvokeQueryFile
  \/ InvokeUnknown

Spec == Init /\ [][Next]_vars

(***************************************************************************)
(* Two initFile invocations running concurrently on one ledger.  Each runs *)
(* the handler of lines 47-104 from one store call to the next; between    *)
(* two of its store calls the other invocation may run.  The store accepts *)
(* every call and applies it at once: this layer takes no lock.            *)
(***************************************************************************)
Procs == {1, 2}

\* The argument lists of the concurrent invocations: three strings each.
RaceArgs == { args \in InitFileArgs : Len(args) = 3 }

\* An invocation at the entry of initFile.
Started(args) ==
  [pc |-> "check", args |-> args, fileName |-> << >>, fileHash |-> << >>,
   fileUrl |-> << >>, status |-> "", message |-> "", calls |-> << >>,
   lateRead |-> FALSE]

InitRace ==
  /\ store \in PreLedgers
  /\ call = NoCall
  /\ faulted = FALSE
  /\ \E a1 \in RaceArgs, a2 \in RaceArgs :
       race = [pre |-> store, proc |-> <<Started(a1), Started(a2)>>]

\* The invocation has made its primary write (line 85).
WrotePrimary(me) == Len(me.calls) >= 2 /\ me.calls[2] = "PutState"

\* The next step of invocation me on ledger s, the other invocation being
\* other: the invocation after the step and the ledger after it.
initFileStep(me, other, s) ==
  IF me.pc = "check"
  THEN \* lines 50-67
    IF initFileArgCheck(me.args) # ""
    THEN [proc |-> [me EXCEPT !.pc = "done", !.status = ERROR,
                              !.message = initFileArgCheck(me.args)],
          store |-> s]
    ELSE IF ~ InRange(me.args, 3)
    THEN [proc |-> [me EXCEPT !.pc = "done", !.status = PANIC,
                              !.message = "index out of range"],
          store |-> s]
    ELSE [proc |-> [me EXCEPT !.pc = "GetState",
                              !.fileName = At(me.args, 0),
                              !.fileHash = ToLower(At(me.args, 1)),
                              !.fileUrl = ToLower(At(me.args, 3))],
          store |-> s]
  ELSE IF me.pc = "GetState"
  THEN \* lines 70-76
    IF ~ GetState(s, me.fileName).isNil
    THEN [proc |-> [me EXCEPT !.pc = "done", !.status = ERROR,
                              !.message = "This file is  already exists: ",
                              !.calls = Append(me.calls, "GetState"),
                              !.lateRead = WrotePrimary(other)],
          store |-> s]
    ELSE [proc |-> [me EXCEPT !.pc = "PutState",
                              !.calls = Append(me.calls, "GetState"),
                              !.lateRead = WrotePrimary(other)],
          store |-> s]
  ELSE IF me.pc = "PutState"
  THEN \* lines 78-88
    [proc |-> [me EXCEPT !.pc = "PutIndex", !.calls = Append(me.calls, "PutState")],
     store |-> PutState(s, me.fileName,
                        Marshal(FileDetails(me.fileName, me.fileHash, me.fileUrl)))]
  ELSE \* lines 90-102
    IF ~ CompositeKeyOk(initFileIndexName, <<me.fileHash, me.fileName>>)
    THEN [proc |-> [me EXCEPT !.pc = "done", !.status = ERROR,
                              !.message = "CreateCompositeKey fails",
                              !.calls = Append(me.calls, "CreateCompositeKey")],
          store |-> s]
    ELSE [proc |-> [me EXCEPT !.pc = "done", !.status = OK,
                              !.calls = me.calls \o <<"CreateCompositeKey", "PutState">>],
          store |-> PutState(s, CreateCompositeKey(initFileIndexName,
                                                   <<me.fileHash, me.fileName>>),
                             IndexValue)]

RaceStep ==
  \E p \in Procs :
    /\ race.proc[p].pc # "done"
    /\ LET r == initFileStep(race.proc[p], race.proc[3 - p], store)
       IN /\ store' = r.store
          /\ race' = [race EXCEPT !.proc[p] = r.proc]
    /\ UNCHANGED <<call, faulted>>

NextRace == RaceStep

SpecRace == InitRace /\ [][NextRace]_vars

(***************************************************************************)
(* Vocabulary of the properties.                                           *)
(***************************************************************************)
\* Exactly three arguments, none of them empty.
ThreeNonEmpty(args) == Len(args) = 3 /\ \A i \in 1..3 : args[i] # EmptyStr

\* The last invocation was of initFile, with arguments the contract accepts,
\* for a name with no primary entry, and no store call failed.
InitFileMustSucceed ==
  /\ call.function = "initFile"
  /\ ThreeNonEmpty(call.args)
  /\ call.args[1] \notin DOMAIN call.pre
  /\ call.fault = NoFault

InvalidArgumentError ==
  /\ call.status = ERROR
  /\ call.message \in { "Incorrect number of arguments. Expecting 4",
                        "Incorrect number of arguments. Expecting 1",
                        "1st argument must be a non-empty string",
                        "2nd argument must be a non-empty string",
                        "3rd argument must be a non-empty string" }

DuplicateRecordError(name) ==
  /\ call.status = ERROR
  /\ call.message = "This file is  already exists: "
  /\ call.detail = name

NotFoundError(name) ==
  /\ call.status = ERROR
  /\ call.message = "Marble does not exist: "
  /\ call.detail = name

\* The composite key of the secondary index (hash, name), as it is written.
IndexKey(hash, name) == CreateCompositeKey(initFileIndexName, <<hash, name>>)

\* Ledger s holds a primary entry under name whose record has this hash.
HasPrimary(s, name, hash) ==
  /\ name \in DOMAIN s
  /\ ~ Unmarshal(s[name]).err
  /\ Unmarshal(s[name]).rec.FileHash = hash

\* The invocation made no store write.
NoWrite == \A i \in 1..Len(call.calls) : call.calls[i] \notin {"PutState", "DelState"}

AllNames == PreNames \cup (ArgStrings \ {EmptyStr})
AllHashes == PreHashes \cup { ToLower(h) : h \in ArgStrings \ {EmptyStr} }

(***************************************************************************)
(* C1.  An initFile invocation with exactly three non-empty arguments,     *)
(* whose name has no primary entry, and in which every store call          *)
(* succeeds, returns a success result.                                     *)
(***************************************************************************)
C1_InitFileSucceeds == InitFileMustSucceed => call.status = OK

(***************************************************************************)
(* C2.  After an initFile(name, hash, url) that the contract makes succeed, *)
(* the ledger holds the record (name, lowercase(hash), lowercase(url))     *)
(* under name and the index entry under the composite key of               *)
(* (lowercase(hash), name), with a non-empty value.                        *)
(***************************************************************************)
C2_InitFileWritesRecordAndIndex ==
  InitFileMustSucceed =>
    LET name == call.args[1]
        hash == ToLower(call.args[2])
        url == ToLower(call.args[3])
    IN /\ call.status = OK
       /\ name \in DOMAIN store
       /\ store[name] = Marshal(FileDetails(name, hash, url))
       /\ IndexKey(hash, name) \in DOMAIN store
       /\ store[IndexKey(hash, name)] # << >>
       /\ \A h \in AllHashes \ {hash} : IndexKey(h, name) \notin DOMAIN store

(***************************************************************************)
(* C3.  As long as no store call has failed, for every name n and hash h   *)
(* a primary entry under n with hash h exists if and only if the index     *)
(* entry under the composite key of (h, n) exists.                         *)
(***************************************************************************)
C3_PrimaryIffIndex ==
  ~ faulted =>
    \A n \in AllNames, h \in AllHashes :
      HasPrimary(store, n, h) <=> IndexKey(h, n) \in DOMAIN store

(***************************************************************************)
(* C4.  When deletefile(name) returns success, the ledger holds neither    *)
(* the primary entry under name nor the index entry written for that       *)
(* record (the composite key of its stored hash and name).                 *)
(***************************************************************************)
C4_DeleteRemovesBoth ==
  (call.function = "deletefile" /\ call.status = OK) =>
    LET name == call.args[1]
        rec == Unmarshal(call.pre[name]).rec
    IN /\ name \notin DOMAIN store
       /\ IndexKey(rec.FileHash, rec.FileName) \notin DOMAIN store

(***************************************************************************)
(* C5.  An initFile call (three non-empty arguments, no store failure)     *)
(* whose name already has a primary entry fails with the duplicate-record  *)
(* error naming it and leaves the ledger as it was.                        *)
(***************************************************************************)
C5_DuplicateRejected ==
  ( /\ call.function = "initFile"
    /\ ThreeNonEmpty(call.args)
    /\ call.args[1] \in DOMAIN call.pre
    /\ call.fault = NoFault ) =>
      /\ DuplicateRecordError(call.args[1])
      /\ store = call.pre

(***************************************************************************)
(* C6.  initFile run from the same ledger on two argument triples that     *)
(* differ only in the letter case of hash and url leaves identical         *)
(* ledgers, and the record stored under the name holds the lowercase       *)
(* forms of hash and url.                                                  *)
(***************************************************************************)
C6_NormalizedRecord ==
  InitFileMustSucceed =>
    LET name == call.args[1]
        variants == { b \in InitFileArgs :
                        /\ Len(b) = 3
                        /\ b[1] = name
                        /\ ToLower(b[2]) = ToLower(call.args[2])
                        /\ ToLower(b[3]) = ToLower(call.args[3]) }
    IN /\ \A b \in variants : initFile(call.pre, b, NoFault).store = store
       /\ name \in DOMAIN store
       /\ ~ Unmarshal(store[name]).err
       /\ Unmarshal(store[name]).rec.FileHash = ToLower(call.args[2])
       /\ Unmarshal(store[name]).rec.FileUrl = ToLower(call.args[3])

(***************************************************************************)
(* C7.  An initFile call with an empty name, hash or url, or with an       *)
(* argument count other than three, fails with an invalid-argument error   *)
(* and writes nothing: the ledger after the call is the ledger before it.  *)
(***************************************************************************)
C7_InvalidArgumentsRejected ==
  (call.function = "initFile" /\ ~ ThreeNonEmpty(call.args)) =>
    /\ InvalidArgumentError
    /\ NoWrite
    /\ store = call.pre

\* An initFile call with an empty hash for a name the ledger holds.
C7_Witness ==
  /\ call.function = "initFile"
  /\ Len(call.args) = 3
  /\ call.args[1] \in DOMAIN call.pre
  /\ call.args[2] = EmptyStr
  /\ call.args[3] # EmptyStr
  /\ call.status = ERROR

(***************************************************************************)
(* C8.  deletefile(name) for a name with no primary entry (the store read  *)
(* succeeding) fails with the not-found error and leaves every entry of    *)
(* the ledger as it was.                                                   *)
(***************************************************************************)
C8_DeleteOfMissingRecord ==
  ( /\ call.function = "deletefile"
    /\ Len(call.args) = 1
    /\ call.args[1] \notin DOMAIN call.pre
    /\ call.fault # FailGet ) =>
      /\ NotFoundError(call.args[1])
      /\ NoWrite
      /\ store = call.pre

\* deletefile of an absent name on a ledger that holds another record.
C8_Witness ==
  /\ call.function = "deletefile"
  /\ Len(call.args) = 1
  /\ call.args[1] \notin DOMAIN call.pre
  /\ call.pre # EmptyStore
  /\ call.fault = NoFault
  /\ call.status = ERROR

(***************************************************************************)
(* C9.  The serialized array of a query.                                   *)
(***************************************************************************)
\* {"Key":"k","Record":v}
ClaimedObject(pair) ==
  Concat(<< <<"{", QUOTE, "K","e","y", QUOTE, ":", QUOTE>>, pair.Key,
            <<QUOTE, ",", QUOTE, "R","e","c","o","r","d", QUOTE, ":">>,
            pair.Value, <<"}">> >>)
\* {"Key":"k", "Record":v}
SpacedObject(pair) ==
  Concat(<< <<"{", QUOTE, "K","e","y", QUOTE, ":", QUOTE>>, pair.Key,
            <<QUOTE, ",", " ", QUOTE, "R","e","c","o","r","d", QUOTE, ":">>,
            pair.Value, <<"}">> >>)

\* The objects of the pairs, in order, with one comma between neighbours.
RECURSIVE ClaimedMembers(_)
ClaimedMembers(pairs) ==
  IF Len(pairs) = 0 THEN << >>
  ELSE IF Len(pairs) = 1 THEN ClaimedObject(pairs[1])
  ELSE ClaimedMembers(SubSeq(pairs, 1, Len(pairs) - 1))
         \o <<",">> \o ClaimedObject(pairs[Len(pairs)])

RECURSIVE SpacedMembers(_)
SpacedMembers(pairs) ==
  IF Len(pairs) = 0 THEN << >>
  ELSE IF Len(pairs) = 1 THEN SpacedObject(pairs[1])
  ELSE SpacedMembers(SubSeq(pairs, 1, Len(pairs) - 1))
         \o <<",">> \o SpacedObject(pairs[Len(pairs)])

\* A query that reached the store and whose cursor was drained without error.
QueryDrained ==
  /\ call.function = "queryfile"
  /\ Len(call.args) >= 1
  /\ call.fault = NoFault
  /\ call.failAt = 0

(***************************************************************************)
(* C9 as stated.  For a cursor yielding (k1,v1),...,(kn,vn) the query      *)
(* returns exactly [{"Key":"k1","Record":v1},...]: one object per pair, in *)
(* cursor order, a single comma between objects, no trailing comma, no     *)
(* other character between tokens, each Record the raw stored bytes.       *)
(***************************************************************************)
C9_ArrayAsStated ==
  QueryDrained =>
    /\ call.status = OK
    /\ call.payload = <<"[">> \o ClaimedMembers(call.results) \o <<"]">>

(***************************************************************************)
(* C9 as amended.  The same, except that inside every object one space     *)
(* follows the comma between the Key member and the Record member:         *)
(* [{"Key":"k1", "Record":v1},{"Key":"k2", "Record":v2},...].              *)
(***************************************************************************)
C9_ArrayWithSpace ==
  QueryDrained =>
    /\ call.status = OK
    /\ call.payload = <<"[">> \o SpacedMembers(call.results) \o <<"]">>

\* A query whose cursor yielded two pairs.
C9_Witness ==
  /\ QueryDrained
  /\ Len(call.results) = 2
  /\ call.status = OK

(***************************************************************************)
(* C10.  A query whose cursor yields no pair returns success with exactly  *)
(* the two-character payload [].                                           *)
(***************************************************************************)
C10_EmptyResult ==
  (QueryDrained /\ call.results = << >>) =>
    /\ call.status = OK
    /\ call.payload = <<"[", "]">>

\* A query on a ledger that holds records and whose cursor yielded nothing.
C10_Witness ==
  /\ QueryDrained
  /\ call.results = << >>
  /\ call.pre # EmptyStore
  /\ call.status = OK

(***************************************************************************)
(* Vocabulary of the calls an invocation makes.                            *)
(***************************************************************************)
\* How many times the invocation made the call of this name.
Count(calls, name) == Cardinality({ i \in 1..Len(calls) : calls[i] = name })

\* The invocation obtained a cursor from the store.
CursorObtained ==
  /\ call.function = "queryfile"
  /\ Count(call.calls, "GetQueryResult") = 1
  /\ call.fault # FailQuery

(***************************************************************************)
(* C11.  Every cursor a query invocation obtains from the store is         *)
(* released exactly once before the invocation returns, whether the cursor *)
(* was drained or one of its advances failed; nothing is done with the     *)
(* cursor after its release, and no release happens without a cursor.      *)
(***************************************************************************)
C11_CursorReleasedOnce ==
  /\ CursorObtained =>
       /\ Count(call.calls, "Close") = 1
       /\ call.calls[Len(call.calls)] = "Close"
  /\ ~ CursorObtained => Count(call.calls, "Close") = 0

\* A query whose second cursor advance failed and that released its cursor.
C11_Witness ==
  /\ CursorObtained
  /\ call.failAt = 2
  /\ call.status = ERROR
  /\ Count(call.calls, "Close") = 1

(***************************************************************************)
(* C12.  queryfile fails with an invalid-argument error, without calling   *)
(* the store's query engine, unless it is given exactly one argument and   *)
(* that argument is non-empty.                                             *)
(***************************************************************************)
C12_QueryArgumentsChecked ==
  ( /\ call.function = "queryfile"
    /\ ~ (Len(call.args) = 1 /\ call.args[1] # EmptyStr) ) =>
      /\ InvalidArgumentError
      /\ Count(call.calls, "GetQueryResult") = 0

(***************************************************************************)
(* C13.  An invocation whose operation name is none of initFile,           *)
(* deletefile, queryfile returns the unknown-function failure and makes no *)
(* store read, write, delete or query.                                     *)
(***************************************************************************)
C13_UnknownFunctionRejected ==
  (call.function \notin {"", "initFile", "deletefile", "queryfile"}) =>
    /\ call.status = ERROR
    /\ call.message = "Received unknown function invocation"
    /\ call.calls = << >>
    /\ store = call.pre

\* The operation name deleteFile, for a name the ledger holds.
C13_Witness ==
  /\ call.function = "deleteFile"
  /\ Len(call.args) = 1
  /\ call.args[1] \in DOMAIN call.pre
  /\ call.status = ERROR

(***************************************************************************)
(* C14.  When the store accepts the primary write of an initFile (three    *)
(* non-empty arguments, a name with no primary entry) and rejects the write *)
(* of the index entry, initFile returns a failure result carrying the      *)
(* store's error; it does not report success with the primary entry        *)
(* written and its index entry missing.                                    *)
(***************************************************************************)
C14_IndexWriteFailureSurfaced ==
  ( /\ call.function = "initFile"
    /\ ThreeNonEmpty(call.args)
    /\ call.args[1] \notin DOMAIN call.pre
    /\ call.fault = FailPutIndex ) =>
      /\ call.status = ERROR
      /\ call.detail = ErrorText(FailPutIndex)

(***************************************************************************)
(* C15.  When a cursor advance fails after zero or more pairs have been    *)
(* consumed, the query returns a failure result carrying the error and no  *)
(* payload, and makes no cursor advance after the failed one.              *)
(***************************************************************************)
C15_AdvanceFailureAborts ==
  ( /\ call.function = "queryfile"
    /\ Len(call.args) >= 1
    /\ call.fault = NoFault
    /\ call.failAt # 0 ) =>
      /\ call.status = ERROR
      /\ call.detail = ErrorText(FailNext)
      /\ call.payload = << >>
      /\ Count(call.calls, "Next") = call.failAt
      /\ Count(call.calls, "HasNext") = call.failAt
      /\ SubSeq(call.calls, Len(call.calls) - 1, Len(call.calls)) = <<"Next", "Close">>

\* The advance to the second of two pairs failed, after the first was consumed.
C15_Witness ==
  /\ call.function = "queryfile"
  /\ Len(call.results) = 2
  /\ call.failAt = 2
  /\ call.payload = << >>
  /\ call.status = ERROR

(***************************************************************************)
(* C16.  deletefile deletes the primary entry before the index entry; when *)
(* the primary deletion succeeds and the store rejects the index deletion, *)
(* it returns a failure result, the primary entry is gone, the index entry *)
(* of the record is still there, and the primary entry is not written back. *)
(***************************************************************************)
C16_DanglingIndexOnFailedIndexDelete ==
  ( /\ call.function = "deletefile"
    /\ Len(call.args) = 1
    /\ call.args[1] \in DOMAIN call.pre
    /\ ~ Unmarshal(call.pre[call.args[1]]).err
    /\ call.fault = FailDelIndex ) =>
      LET name == call.args[1]
          rec == Unmarshal(call.pre[name]).rec
      IN /\ call.status = ERROR
         /\ call.detail = ErrorText(FailDelIndex)
         /\ call.calls = <<"GetState", "DelState", "CreateCompositeKey", "DelState">>
         /\ name \notin DOMAIN store
         /\ IndexKey(rec.FileHash, rec.FileName) \in DOMAIN call.pre
              => IndexKey(rec.FileHash, rec.FileName) \in DOMAIN store
         /\ store = DelState(call.pre, name)

\* The index deletion was rejected and the index entry of the record is left
\* without its primary entry.
C16_Witness ==
  /\ call.function = "deletefile"
  /\ call.fault = FailDelIndex
  /\ call.status = ERROR
  /\ Len(call.args) = 1
  /\ call.args[1] \in DOMAIN call.pre
  /\ call.args[1] \notin DOMAIN store
  /\ \E h \in AllHashes : IndexKey(h, call.args[1]) \in DOMAIN store

(***************************************************************************)
(* C17.  A query invocation, whether it succeeds or fails, makes no put    *)
(* and no delete: the ledger after it is the ledger before it.             *)
(***************************************************************************)
C17_QueryLeavesLedger ==
  call.function = "queryfile" =>
    /\ NoWrite
    /\ store = call.pre

\* A successful query that returned one record of the ledger.
C17_Witness ==
  /\ call.function = "queryfile"
  /\ call.status = OK
  /\ Len(call.results) = 1
  /\ call.pre # EmptyStore
  /\ store = call.pre

(***************************************************************************)
(* C19.  A deletefile invocation that fails before or at the primary       *)
(* deletion (bad argument count, store read error, primary entry absent,   *)
(* stored bytes that are no record, primary deletion rejected) changes     *)
(* nothing: every entry of the ledger is as before the call, and no        *)
(* deletion of an index entry is attempted.                                *)
(***************************************************************************)
C19_EarlyDeleteFailureChangesNothing ==
  ( /\ call.function = "deletefile"
    /\ \/ Len(call.args) # 1
       \/ call.fault \in {FailGet, FailDel}
       \/ call.args[1] \notin DOMAIN call.pre
       \/ Unmarshal(call.pre[call.args[1]]).err ) =>
      /\ call.status = ERROR
      /\ store = call.pre
      /\ Count(call.calls, "CreateCompositeKey") = 0
      /\ Count(call.calls, "DelState") <= 1
      /\ Count(call.calls, "DelState") = 1 => call.fault = FailDel

\* deletefile of a key whose stored bytes are the sentinel of an index entry.
C19_Witness ==
  /\ call.function = "deletefile"
  /\ Len(call.args) = 1
  /\ call.args[1] \in DOMAIN call.pre
  /\ Unmarshal(call.pre[call.args[1]]).err
  /\ call.status = ERROR
  /\ call.message = "Failed to decode JSON of: "

(***************************************************************************)
(* C20.  An initFile or deletefile invocation for name n touches only the  *)
(* primary key n and composite index keys whose name part is n: every      *)
(* other entry of the ledger is after the call as it was before it,        *)
(* whatever the outcome of the call.                                       *)
(***************************************************************************)
\* k is a composite key whose last attribute is the name n.
NamePartIs(k, n) ==
  /\ Len(k) >= Len(n) + 2
  /\ k[1] = NUL
  /\ SubSeq(k, Len(k) - Len(n) - 1, Len(k)) = <<NUL>> \o n \o <<NUL>>

C20_OtherNamesUntouched ==
  call.function \in {"initFile", "deletefile"} =>
    IF Len(call.args) = 0 THEN store = call.pre
    ELSE \A k \in DOMAIN call.pre \cup DOMAIN store :
           (k # call.args[1] /\ ~ NamePartIs(k, call.args[1]))
             => GetState(store, k) = GetState(call.pre, k)

\* A successful deletefile on a ledger that holds a second record under the
\* same hash, the two entries of which are still there.
C20_Witness ==
  /\ call.function = "deletefile"
  /\ call.status = OK
  /\ \E m \in AllNames, h \in AllHashes :
       /\ m # call.args[1]
       /\ HasPrimary(call.pre, call.args[1], h)
       /\ HasPrimary(store, m, h)
       /\ IndexKey(h, m) \in DOMAIN store

(***************************************************************************)
(* C18.  Two concurrent initFile invocations for the same absent name      *)
(* (three non-empty arguments each), neither of which reads the primary    *)
(* key after the other's primary write, both pass the uniqueness check and *)
(* both write the primary entry, the later write replacing the earlier:    *)
(* both end in success and the ledger holds the name.                      *)
(***************************************************************************)
C18_RaceBothWrite ==
  ( /\ \A p \in Procs : race.proc[p].pc = "done"
    /\ \A p \in Procs : ThreeNonEmpty(race.proc[p].args)
    /\ race.proc[1].args[1] = race.proc[2].args[1]
    /\ race.proc[1].args[1] \notin DOMAIN race.pre
    /\ \A p \in Procs : ~ race.proc[p].lateRead ) =>
      /\ \A p \in Procs : WrotePrimary(race.proc[p])
      /\ \A p \in Procs : race.proc[p].status = OK
      /\ race.proc[1].args[1] \in DOMAIN store

====
